---- MODULE Spec2Model ----
(***************************************************************************)
(* eccenca Corporate Memory query runner for redash                        *)
(* (src/redash/query_runner/corporate_memory.py).                          *)
(*                                                                         *)
(* JSON objects and Python dicts are functions whose DOMAIN is the set of  *)
(* keys, JSON arrays and Python lists are sequences.  A call either        *)
(* returns a value or raises an exception.                                 *)
(***************************************************************************)
EXTENDS Naturals, Sequences, FiniteSets, TLC

VARIABLES
    results,        \* the string handed to _transform_sparql_results
    transformed,    \* what _transform_sparql_results returned or raised
    environ,        \* os.environ, shared by every execution of the process
    configuration,  \* self.configuration of each adapter instance
    logged,         \* the records _setup_environment of each instance logged
    stagings,       \* the instances whose _setup_environment has run, in order
    prior,          \* os.environ as the last _setup_environment call found it
    pc,             \* where each run_query execution stands
    key,            \* position of its loop over KNOWN_CONFIG_KEYS
    client,         \* outcome of its SparqlQuery(query).get_results()
    returned,       \* what its run_query returned or raised
    seen,           \* the environment its client call read
    events,         \* the steps it has completed, in order
    interfered      \* another execution wrote environ while it staged

tvars == <<results, transformed>>

evars == <<environ, configuration, logged>>

svars == <<stagings, prior>>

rvars == <<pc, key, client, returned, seen, events, interfered>>

allvars == <<results, transformed, environ, configuration, logged, stagings, prior,
             pc, key, client, returned, seen, events, interfered>>

(***************************************************************************)
(* Outcomes of a call.                                                     *)
(***************************************************************************)
Return(v) == [ok |-> TRUE, value |-> v]

Raise(e) == [ok |-> FALSE, exc |-> e]

Range(s) == {s[i] : i \in 1..Len(s)}

EmptyDict == [k \in {} |-> ""]

\* d[k] = v of a Python dict: adds the key or replaces its value.
DictSet(d, k, v) == [x \in DOMAIN d \cup {k} |-> IF x = k THEN v ELSE d[x]]

(***************************************************************************)
(* redash.utils.json_loads / json_dumps.  A string is modelled by whether  *)
(* it parses and, if it does, by the JSON value it denotes.                *)
(***************************************************************************)
JsonText(v) == [parses |-> TRUE, json |-> v]

NotJson == [parses |-> FALSE]

json_loads(s) == IF s.parses THEN Return(s.json) ELSE Raise("JSONDecodeError")

json_dumps(v) == JsonText(v)

(***************************************************************************)
(* _transform_sparql_results, lines 117-141.                               *)
(***************************************************************************)
\* d[k] of a Python dict: KeyError when the key is missing.
GetItem(d, k) == IF k \in DOMAIN d THEN Return(d[k]) ELSE Raise("KeyError")

\* sparql_results["head"]["vars"]
HeadVarsDefaulted(sparql_results) ==
    IF "head" \in DOMAIN sparql_results /\ "vars" \in DOMAIN sparql_results.head
    THEN Return(sparql_results.head.vars)
    ELSE Return(<<>>)

HeadVars(sparql_results) ==
    LET head == GetItem(sparql_results, "head")
    IN  IF head.ok THEN GetItem(head.value, "vars") ELSE head

\* sparql_results["results"]["bindings"]
ResultsBindings(sparql_results) ==
    LET res == GetItem(sparql_results, "results")
    IN  IF res.ok THEN GetItem(res.value, "bindings") ELSE res

\* lines 123-127: try: row[var] = sparql_row[var]["value"]
\*                except KeyError: row[var] = ""
RowValueMissingKept(sparql_row, var) ==
    LET cell == GetItem(sparql_row, var)
    IN  IF cell.ok THEN GetItem(cell.value, "value") ELSE Return("")

RowValue(sparql_row, var) ==
    LET cell == GetItem(sparql_row, var)
        val  == IF cell.ok THEN GetItem(cell.value, "value") ELSE cell
    IN  IF val.ok THEN val ELSE Return("")

\* lines 121-127: the inner loop over head.vars, from position j on
RECURSIVE RowLoop(_, _, _, _)
RowLoop(sparql_row, vars, j, row) ==
    IF j > Len(vars) THEN Return(row)
    ELSE LET val == RowValue(sparql_row, vars[j])
         IN  IF val.ok
             THEN RowLoop(sparql_row, vars, j + 1, DictSet(row, vars[j], val.value))
             ELSE val

\* line 128: rows.append(row)
AppendRowFront(rows, row) == <<row>> \o rows

AppendRow(rows, row) == Append(rows, row)

\* lines 119-128: the outer loop over results.bindings, from position i on;
\* head.vars is looked up again for every binding (line 122)
RECURSIVE RowsLoop(_, _, _, _)
RowsLoop(sparql_results, bindings, i, rows) ==
    IF i > Len(bindings) THEN Return(rows)
    ELSE LET vars == HeadVars(sparql_results)
         IN  IF ~vars.ok THEN vars
             ELSE LET row == RowLoop(bindings[i], vars.value, 1, EmptyDict)
                  IN  IF row.ok
                      THEN RowsLoop(sparql_results, bindings, i + 1,
                                    AppendRow(rows, row.value))
                      ELSE row

\* lines 132-138
Column(var) == [name |-> var, friendly_name |-> var, type |-> "string"]

\* lines 130-138: the loop over head.vars, from position j on
RECURSIVE ColumnsLoopDedup(_, _, _)
ColumnsLoopDedup(vars, j, columns) ==
    IF j > Len(vars) THEN columns
    ELSE ColumnsLoopDedup(vars, j + 1,
             IF Column(vars[j]) \in Range(columns) THEN columns
             ELSE Append(columns, Column(vars[j])))

RECURSIVE ColumnsLoop(_, _, _)
ColumnsLoop(vars, j, columns) ==
    IF j > Len(vars) THEN columns
    ELSE ColumnsLoop(vars, j + 1, Append(columns, Column(vars[j])))

\* lines 117-141 once json_loads has returned
TransformParsed(sparql_results) ==
    LET bindings == ResultsBindings(sparql_results)
    IN  IF ~bindings.ok THEN bindings
        ELSE LET rows == RowsLoop(sparql_results, bindings.value, 1, <<>>)
             IN  IF ~rows.ok THEN rows
                 ELSE LET vars == HeadVars(sparql_results)
                      IN  IF ~vars.ok THEN vars
                          ELSE Return(json_dumps(
                                   [columns |-> ColumnsLoop(vars.value, 1, <<>>),
                                    rows |-> rows.value]))

_transform_sparql_results(s) ==
    LET sparql_results == json_loads(s)
    IN  IF sparql_results.ok THEN TransformParsed(sparql_results.value)
        ELSE sparql_results

(***************************************************************************)
(* Class attributes, lines 27-47.                                          *)
(***************************************************************************)
KNOWN_CONFIG_KEYS ==
    <<"CMEM_BASE_PROTOCOL", "CMEM_BASE_DOMAIN", "CMEM_BASE_URI", "SSL_VERIFY",
      "REQUESTS_CA_BUNDLE", "DP_API_ENDPOINT", "DI_API_ENDPOINT",
      "OAUTH_TOKEN_URI", "OAUTH_GRANT_TYPE", "OAUTH_USER", "OAUTH_PASSWORD",
      "OAUTH_CLIENT_ID", "OAUTH_CLIENT_SECRET">>

KNOWN_SECRET_KEYS == {"OAUTH_PASSWORD", "OAUTH_CLIENT_SECRET"}

\* Python's None
None == "None"

(***************************************************************************)
(* _setup_environment, lines 79-92.                                        *)
(***************************************************************************)
\* line 81: environ.pop(key)
EnvPopKept(env, k) == env

EnvPop(env, k) == [x \in DOMAIN env \ {k} |-> env[x]]

\* line 84: environ[key] = value
EnvSet(env, k, v) == DictSet(env, k, v)

\* line 82: self.configuration.get(key, None)
ConfigGet(cfg, k) == IF k \in DOMAIN cfg THEN cfg[k] ELSE None

\* lines 85-92: the record logger.info writes for a staged key; shown is
\* environ[key] as read back on line 91
LogRecordWithValue(k, shown) ==
    [msg |-> "{} set by config to {}", key |-> k, value |-> shown]

LogRecord(k, shown) ==
    IF k \in KNOWN_SECRET_KEYS
    THEN [msg |-> "{} set by config", key |-> k]
    ELSE [msg |-> "{} set by config to {}", key |-> k, value |-> shown]

\* lines 80-92: one pass of the loop body, run without interruption, on
\* st = [environ, log]
StageKeyNoPop(st, cfg, k) ==
    LET value == ConfigGet(cfg, k)
    IN  IF value # None
        THEN [environ |-> EnvSet(st.environ, k, value),
              log     |-> Append(st.log, LogRecord(k, value))]
        ELSE st

StageKey(st, cfg, k) ==
    LET popped == IF k \in DOMAIN st.environ THEN EnvPop(st.environ, k)
                  ELSE st.environ
        value  == ConfigGet(cfg, k)
        set    == EnvSet(popped, k, value)
    IN  IF value # None
        THEN [environ |-> set, log |-> Append(st.log, LogRecord(k, set[k]))]
        ELSE [environ |-> popped, log |-> st.log]

\* line 79: for key in ..., from position j of keys on
RECURSIVE StageLoop(_, _, _, _)
StageLoop(st, cfg, keys, j) ==
    IF j > Len(keys) THEN st
    ELSE StageLoop(StageKey(st, cfg, keys[j]), cfg, keys, j + 1)

RECURSIVE SeqOfSet(_)
SeqOfSet(S) ==
    IF S = {} THEN <<>>
    ELSE LET x == CHOOSE y \in S : TRUE IN <<x>> \o SeqOfSet(S \ {x})

\* the loop run over the keys of the configuration as well
SetupEnvironmentAllKeys(env, cfg) ==
    StageLoop([environ |-> env, log |-> <<>>], cfg,
              KNOWN_CONFIG_KEYS \o SeqOfSet(DOMAIN cfg \ Range(KNOWN_CONFIG_KEYS)), 1)

\* lines 73-92, run without interruption: the environment and the log
\* records it leaves
_setup_environment(env, cfg) ==
    StageLoop([environ |-> env, log |-> <<>>], cfg, KNOWN_CONFIG_KEYS, 1)

(***************************************************************************)
(* Inputs of the translator: SPARQL 1.1 Query Results JSON documents with  *)
(* at most MaxVars variables in head.vars and at most MaxBindings          *)
(* bindings, the same documents with one of the four keys taken out, and   *)
(* a string that is no JSON.                                               *)
(***************************************************************************)
MaxVars == 2

MaxBindings == 2

VarNames == {"a", "b"}

\* a variable a binding may carry although head.vars does not project it
ExtraName == "c"

SeqsUpTo(S, n) == UNION {[1..m -> S] : m \in 0..n}

\* value objects of a binding: with a "value" field or without one
ValueObjects ==
    {[type |-> "literal", value |-> "x"], [type |-> "uri", value |-> "y"],
     [type |-> "bnode"]}

BindingObjects ==
    UNION {[D -> ValueObjects] : D \in SUBSET VarNames}
    \cup {[k \in {ExtraName} |-> [type |-> "literal", value |-> "z"]]}
    \cup {[k \in {"a", ExtraName} |-> [type |-> "literal", value |-> "z"]]}

Defects == {"none", "nohead", "novars", "noresults", "nobindings"}

SparqlDoc(vars, bindings, defect) ==
    CASE defect = "none" ->
             [head |-> [vars |-> vars], results |-> [bindings |-> bindings]]
      [] defect = "nohead" -> [results |-> [bindings |-> bindings]]
      [] defect = "novars" ->
             [head |-> [link |-> <<>>], results |-> [bindings |-> bindings]]
      [] defect = "noresults" -> [head |-> [vars |-> vars]]
      [] defect = "nobindings" ->
             [head |-> [vars |-> vars], results |-> [distinct |-> FALSE]]

TranslatorInputs ==
    {JsonText(SparqlDoc(vs, bs, d)) :
        vs \in SeqsUpTo(VarNames, MaxVars),
        bs \in SeqsUpTo(BindingObjects, MaxBindings),
        d \in Defects}
    \cup {NotJson}

NotCalled == [ok |-> FALSE, exc |-> "not called"]

Inst == {1, 2}

IdleTranslator ==
    /\ results = NotJson
    /\ transformed = NotCalled

IdleRuns ==
    /\ pc = [i \in Inst |-> "idle"]
    /\ key = [i \in Inst |-> 1]
    /\ client = [i \in Inst |-> NotCalled]
    /\ returned = [i \in Inst |-> NotCalled]
    /\ seen = [i \in Inst |-> EmptyDict]
    /\ events = [i \in Inst |-> <<>>]
    /\ interfered = [i \in Inst |-> FALSE]

TInit ==
    /\ results \in TranslatorInputs
    /\ transformed = NotCalled
    /\ environ = EmptyDict
    /\ configuration = [i \in Inst |-> EmptyDict]
    /\ logged = [i \in Inst |-> <<>>]
    /\ stagings = <<>>
    /\ prior = EmptyDict
    /\ IdleRuns

Transform ==
    /\ transformed = NotCalled
    /\ transformed' = _transform_sparql_results(results)
    /\ UNCHANGED <<results, evars, svars, rvars>>

TNext == Transform

SpecTransform == TInit /\ [][TNext]_allvars

(***************************************************************************)
(* Inputs of the staging: a prior environment and the configuration of an  *)
(* adapter instance, holding at most MaxEntries entries together, on the   *)
(* allow-listed keys and on one key outside the allow-list.  The second    *)
(* instance is configured like the first, except for the values of its     *)
(* secret keys.                                                            *)
(***************************************************************************)
MaxEntries == 2

OtherKey == "PATH"

AllKeys == Range(KNOWN_CONFIG_KEYS) \cup {OtherKey}

Values == {"v1", "v2"}

\* the dicts with exactly n keys of K and values of V
Dicts(K, V, n) == UNION {[D -> V] : D \in {S \in SUBSET K : Cardinality(S) = n}}

\* the configurations that differ from cfg at most in the values of the
\* secret keys that cfg gives a value
SecretVariants(cfg) ==
    {c \in [DOMAIN cfg -> Values \cup {None}] :
        \A k \in DOMAIN cfg :
           IF k \in KNOWN_SECRET_KEYS /\ cfg[k] # None
           THEN c[k] # None
           ELSE c[k] = cfg[k]}

StagingInputs ==
    \E n0 \in 0..MaxEntries :
      \E n1 \in 0..(MaxEntries - n0) :
        /\ environ \in Dicts(AllKeys, Values, n0)
        /\ \E c1 \in Dicts(AllKeys, Values \cup {None}, n1) :
             \E c2 \in SecretVariants(c1) :
                configuration = [i \in Inst |-> IF i = 1 THEN c1 ELSE c2]

(***************************************************************************)
(* SpecStage: the _setup_environment calls of the two instances, one       *)
(* after the other in either order.                                        *)
(***************************************************************************)
SInit ==
    /\ StagingInputs
    /\ logged = [i \in Inst |-> <<>>]
    /\ stagings = <<>>
    /\ prior = EmptyDict
    /\ IdleTranslator
    /\ IdleRuns

Stage(i) ==
    /\ i \notin Range(stagings)
    /\ LET st == _setup_environment(environ, configuration[i])
       IN  /\ environ' = st.environ
           /\ logged' = [logged EXCEPT ![i] = st.log]
    /\ stagings' = Append(stagings, i)
    /\ prior' = environ
    /\ UNCHANGED <<configuration, tvars, rvars>>

SNext == \E i \in Inst : Stage(i)

SpecStage == SInit /\ [][SNext]_allvars

(***************************************************************************)
(* Inputs of run_query: the configurations of two adapter instances over   *)
(* the properties of the configuration schema (lines 185-212), every value *)
(* of an instance its own, and a prior environment on the same keys; at    *)
(* most MaxRunEntries entries together.                                    *)
(***************************************************************************)
MaxRunEntries == 2

SchemaProperties ==
    {"CMEM_BASE_URI", "OAUTH_GRANT_TYPE", "OAUTH_CLIENT_ID",
     "OAUTH_CLIENT_SECRET", "OAUTH_USER", "OAUTH_PASSWORD"}

PriorValue == "v0"

OwnValue == [i \in Inst |-> IF i = 1 THEN "v1" ELSE "v2"]

RunInputs ==
    \E n0 \in 0..MaxRunEntries :
      \E n1 \in 0..(MaxRunEntries - n0) :
        \E n2 \in 0..(MaxRunEntries - n0 - n1) :
          /\ environ \in Dicts(SchemaProperties, {PriorValue}, n0)
          /\ \E c1 \in Dicts(SchemaProperties, {OwnValue[1]}, n1),
                c2 \in Dicts(SchemaProperties, {OwnValue[2]}, n2) :
                configuration = [i \in Inst |-> IF i = 1 THEN c1 ELSE c2]

(***************************************************************************)
(* run_query, lines 155-173, of two adapter instances executing in one     *)
(* process.  Each access to os.environ is one step, so the executions      *)
(* interleave between any two of them; what an execution does on its own   *)
(* locals is part of the step that follows the access.                     *)
(***************************************************************************)
\* the raw results the external client may hand back
Scenario1 ==
    JsonText([head |-> [vars |-> <<"noop">>],
              results |-> [bindings |->
                  <<[noop |-> [type |-> "literal", value |-> "noop"]]>>]])

\* the result of an ASK query has neither head.vars nor results
AskResult == JsonText([head |-> EmptyDict, boolean |-> TRUE])

ClientOutcomes == {Return(Scenario1), Return(AskResult), Raise("ClientError")}

\* line 79: the loop over KNOWN_CONFIG_KEYS is exhausted at position k
LoopDoneEarly(k) == k > 1

LoopDone(k) == k > Len(KNOWN_CONFIG_KEYS)

\* an exception of a callee leaves run_query as it is: nothing catches it
CaughtAsError(outcome) == Return(<<None, outcome.exc>>)

Propagate(outcome) == outcome

\* lines 172-173: error = None; return data, error
ReturnPair(data) == Return(<<data, None>>)

Staging(i) == pc[i] \in {"test", "pop", "set", "log", "client"}

\* instance i writes environ: every other execution that is between the
\* start of its staging and its client call is interfered with
Interfere(i) == [x \in Inst |-> interfered[x] \/ (x # i /\ Staging(x))]

\* where the loop goes once the pop of key[i] is settled (lines 82-83)
AfterPop(i) ==
    IF ConfigGet(configuration[i], KNOWN_CONFIG_KEYS[key[i]]) # None
    THEN /\ pc' = [pc EXCEPT ![i] = "set"]
         /\ UNCHANGED <<key, events>>
    ELSE /\ key' = [key EXCEPT ![i] = @ + 1]
         /\ pc' = [pc EXCEPT ![i] = IF LoopDone(key[i] + 1) THEN "client" ELSE "test"]
         /\ events' = [events EXCEPT ![i] =
                          IF LoopDone(key[i] + 1) THEN Append(@, "staged") ELSE @]

\* the next pass of the loop, or the end of _setup_environment
NextKey(i) ==
    /\ key' = [key EXCEPT ![i] = @ + 1]
    /\ pc' = [pc EXCEPT ![i] = IF LoopDone(key[i] + 1) THEN "client" ELSE "test"]
    /\ events' = [events EXCEPT ![i] =
                     IF LoopDone(key[i] + 1) THEN Append(@, "staged") ELSE @]

\* run_query raises e
Exit(i, outcome) ==
    /\ pc' = [pc EXCEPT ![i] = "raised"]
    /\ returned' = [returned EXCEPT ![i] = Propagate(outcome)]

\* lines 165-167: the call, up to the first pass of the loop
RunQuery(i) ==
    /\ pc[i] = "idle"
    /\ pc' = [pc EXCEPT ![i] = "test"]
    /\ UNCHANGED <<tvars, evars, svars, key, client, returned, seen, events,
                   interfered>>

\* line 80: if key in environ
TestKey(i) ==
    /\ pc[i] = "test"
    /\ IF KNOWN_CONFIG_KEYS[key[i]] \in DOMAIN environ
       THEN /\ pc' = [pc EXCEPT ![i] = "pop"]
            /\ UNCHANGED <<key, events>>
       ELSE AfterPop(i)
    /\ UNCHANGED <<tvars, evars, svars, client, returned, seen, interfered>>

\* line 81: environ.pop(key); KeyError when the key is gone by now
PopKey(i) ==
    /\ pc[i] = "pop"
    /\ IF KNOWN_CONFIG_KEYS[key[i]] \in DOMAIN environ
       THEN /\ environ' = EnvPop(environ, KNOWN_CONFIG_KEYS[key[i]])
            /\ interfered' = Interfere(i)
            /\ AfterPop(i)
            /\ UNCHANGED returned
       ELSE /\ Exit(i, Raise("KeyError"))
            /\ UNCHANGED <<environ, interfered, key, events>>
    /\ UNCHANGED <<tvars, configuration, logged, svars, client, seen>>

\* line 84: environ[key] = value, and lines 85-88 for a secret key
SetKey(i) ==
    /\ pc[i] = "set"
    /\ LET k == KNOWN_CONFIG_KEYS[key[i]]
       IN  /\ environ' = EnvSet(environ, k, ConfigGet(configuration[i], k))
           /\ interfered' = Interfere(i)
           /\ IF k \in KNOWN_SECRET_KEYS
              THEN /\ logged' = [logged EXCEPT ![i] = Append(@, LogRecord(k, None))]
                   /\ NextKey(i)
              ELSE /\ pc' = [pc EXCEPT ![i] = "log"]
                   /\ UNCHANGED <<logged, key, events>>
    /\ UNCHANGED <<tvars, configuration, svars, client, returned, seen>>

\* lines 90-92: the record of a key that is no secret reads environ[key]
\* back; KeyError when the key is gone by now
LogKey(i) ==
    /\ pc[i] = "log"
    /\ LET k == KNOWN_CONFIG_KEYS[key[i]]
       IN  IF k \in DOMAIN environ
           THEN /\ logged' = [logged EXCEPT ![i] = Append(@, LogRecord(k, environ[k]))]
                /\ NextKey(i)
                /\ UNCHANGED returned
           ELSE /\ Exit(i, Raise("KeyError"))
                /\ UNCHANGED <<logged, key, events>>
    /\ UNCHANGED <<tvars, environ, configuration, svars, client, seen, interfered>>

\* line 170: SparqlQuery(query).get_results(); the client reads its
\* connection parameters from environ and returns a raw result or raises
ClientCall(i) ==
    /\ pc[i] = "client"
    /\ seen' = [seen EXCEPT ![i] = environ]
    /\ events' = [events EXCEPT ![i] = Append(@, "client")]
    /\ \E outcome \in ClientOutcomes :
          /\ client' = [client EXCEPT ![i] = outcome]
          /\ IF outcome.ok
             THEN /\ pc' = [pc EXCEPT ![i] = "translate"]
                  /\ UNCHANGED returned
             ELSE Exit(i, outcome)
    /\ UNCHANGED <<tvars, evars, svars, key, interfered>>

\* lines 168-173: data = self._transform_sparql_results(...); return data, None
Translate(i) ==
    /\ pc[i] = "translate"
    /\ events' = [events EXCEPT ![i] = Append(@, "translate")]
    /\ LET data == _transform_sparql_results(client[i].value)
       IN  IF data.ok
           THEN /\ pc' = [pc EXCEPT ![i] = "done"]
                /\ returned' = [returned EXCEPT ![i] = ReturnPair(data.value)]
           ELSE Exit(i, data)
    /\ UNCHANGED <<tvars, evars, svars, key, client, seen, interfered>>

Init ==
    /\ RunInputs
    /\ logged = [i \in Inst |-> <<>>]
    /\ stagings = <<>>
    /\ prior = EmptyDict
    /\ IdleTranslator
    /\ IdleRuns

Next ==
    \E i \in Inst :
       \/ RunQuery(i)
       \/ TestKey(i)
       \/ PopKey(i)
       \/ SetKey(i)
       \/ LogKey(i)
       \/ ClientCall(i)
       \/ Translate(i)

Spec == Init /\ [][Next]_allvars

(***************************************************************************)
(* Properties of _transform_sparql_results (SpecTransform).                *)
(***************************************************************************)
Translated == transformed # NotCalled

\* the input is JSON with head.vars and results.bindings
HasShape ==
    /\ results.parses
    /\ {"head", "results"} \subseteq DOMAIN results.json
    /\ "vars" \in DOMAIN results.json.head
    /\ "bindings" \in DOMAIN results.json.results

InVars == results.json.head.vars

InBindings == results.json.results.bindings

OutColumns == transformed.value.json.columns

OutRows == transformed.value.json.rows

Bound(b, v) == v \in DOMAIN b /\ "value" \in DOMAIN b[v]

\* C1: for an input with head.vars and results.bindings the translator
\* returns one row per binding; rows[i] has exactly the names of head.vars
\* as keys, and rows[i][v] is bindings[i][v].value when v is bound in
\* bindings[i] with a value object that has "value", "" otherwise.
C1_RowsFromBindings ==
    (Translated /\ HasShape) =>
        /\ transformed.ok
        /\ transformed.value.parses
        /\ Len(OutRows) = Len(InBindings)
        /\ \A i \in 1..Len(InBindings) :
              /\ DOMAIN OutRows[i] = Range(InVars)
              /\ \A v \in Range(InVars) :
                    OutRows[i][v] = IF Bound(InBindings[i], v)
                                    THEN InBindings[i][v].value ELSE ""

\* a translated document with a bound variable, a projected variable absent
\* from a binding, a value object without "value" and a binding carrying a
\* variable that head.vars does not project
C1_Witness ==
    /\ Translated /\ HasShape /\ transformed.ok
    /\ \E i \in 1..Len(InBindings), v \in Range(InVars) : Bound(InBindings[i], v)
    /\ \E i \in 1..Len(InBindings), v \in Range(InVars) : v \notin DOMAIN InBindings[i]
    /\ \E i \in 1..Len(InBindings), v \in Range(InVars) :
          v \in DOMAIN InBindings[i] /\ ~Bound(InBindings[i], v)
    /\ \E i \in 1..Len(InBindings) : ~(DOMAIN InBindings[i] \subseteq Range(InVars))

NoRepeat(s) == Cardinality(Range(s)) = Len(s)

\* C2 as stated: the number of columns is the length of head.vars and every
\* row has exactly head.vars.length keys, for every head.vars sequence.
C2_KeysEqualLength ==
    (Translated /\ HasShape) =>
        /\ transformed.ok
        /\ Len(OutColumns) = Len(InVars)
        /\ \A i \in 1..Len(OutRows) : Cardinality(DOMAIN OutRows[i]) = Len(InVars)

\* C2 amended: the number of columns is the length of head.vars and every
\* row has as many keys as head.vars has distinct names, which is
\* head.vars.length when no name repeats.
C2_KeysEqualDistinct ==
    (Translated /\ HasShape) =>
        /\ transformed.ok
        /\ Len(OutColumns) = Len(InVars)
        /\ \A i \in 1..Len(OutRows) :
              /\ Cardinality(DOMAIN OutRows[i]) = Cardinality(Range(InVars))
              /\ NoRepeat(InVars) => Cardinality(DOMAIN OutRows[i]) = Len(InVars)

\* head.vars repeats a name and a row was built
C2_Witness ==
    /\ Translated /\ HasShape /\ transformed.ok
    /\ ~NoRepeat(InVars)
    /\ Len(OutRows) > 0
    /\ Len(OutColumns) > Cardinality(DOMAIN OutRows[1])

\* C3: columns[j] is {name: head.vars[j], friendly_name: head.vars[j],
\* type: "string"} at every position j, the rows follow results.bindings
\* position by position, and empty bindings give the columns and no rows.
C3_OrderPreserved ==
    (Translated /\ HasShape) =>
        /\ transformed.ok
        /\ DOMAIN OutColumns = 1..Len(InVars)
        /\ \A j \in 1..Len(InVars) :
              OutColumns[j] = [name |-> InVars[j], friendly_name |-> InVars[j],
                               type |-> "string"]
        /\ DOMAIN OutRows = 1..Len(InBindings)
        /\ \A i \in 1..Len(InBindings) :
              \A v \in Range(InVars) :
                 /\ Bound(InBindings[i], v) => OutRows[i][v] = InBindings[i][v].value
                 /\ ~Bound(InBindings[i], v) => OutRows[i][v] = ""
        /\ InBindings = <<>> => OutRows = <<>>

\* two different variables and two bindings that translate to different rows
C3_Witness ==
    /\ Translated /\ HasShape /\ transformed.ok
    /\ Len(InVars) = 2 /\ InVars[1] # InVars[2]
    /\ Len(OutRows) = 2 /\ OutRows[1] # OutRows[2]
    /\ OutColumns[1].name = InVars[1] /\ OutColumns[2].name = InVars[2]

\* C4: a string that is no JSON, or JSON without head, head.vars, results
\* or results.bindings, makes the translator raise and return no value,
\* with empty and with non-empty bindings.
C4_MalformedRaises ==
    (Translated /\ ~HasShape) =>
        /\ ~transformed.ok
        /\ transformed.exc = IF results.parses THEN "KeyError" ELSE "JSONDecodeError"

\* head is missing while the bindings are not empty and leave a variable
\* unbound: the row loop runs, and the translator has raised
C4_Witness ==
    /\ Translated
    /\ results.parses
    /\ "head" \notin DOMAIN results.json
    /\ "results" \in DOMAIN results.json
    /\ "bindings" \in DOMAIN results.json.results
    /\ Len(results.json.results.bindings) > 0
    /\ results.json.results.bindings[1] = EmptyDict
    /\ ~transformed.ok

(***************************************************************************)
(* Properties of _setup_environment run on its own (SpecStage).            *)
(***************************************************************************)
Known == Range(KNOWN_CONFIG_KEYS)

Staged == stagings # <<>>

LastStaged == stagings[Len(stagings)]

\* the configuration holds a value for k
HasValue(cfg, k) == k \in DOMAIN cfg /\ cfg[k] # None

\* C5: after _setup_environment, each of the 13 allow-listed keys is in
\* the environment exactly if the configuration holds a value for it, and
\* then with that value, whatever the environment was before.
C5_EnvironmentIsConfiguration ==
    Staged =>
        /\ Len(KNOWN_CONFIG_KEYS) = 13
        /\ \A k \in Known :
              /\ k \in DOMAIN environ <=> HasValue(configuration[LastStaged], k)
              /\ k \in DOMAIN environ => environ[k] = configuration[LastStaged][k]

\* the staging found an allow-listed key set for which the configuration
\* has an entry with no value, and removed it
C5_Witness ==
    /\ Staged
    /\ \E k \in Known :
          /\ k \in DOMAIN prior
          /\ k \in DOMAIN configuration[LastStaged]
          /\ configuration[LastStaged][k] = None
          /\ k \notin DOMAIN environ

\* the staging found an allow-listed key set and replaced its value
C5_OverwriteWitness ==
    /\ Staged
    /\ \E k \in Known :
          /\ k \in DOMAIN prior
          /\ HasValue(configuration[LastStaged], k)
          /\ prior[k] # environ[k]

\* the staging found an allow-listed key set that the configuration has no
\* entry for and removed it, and set another key
C5_ClearedWitness ==
    /\ Staged
    /\ \E k \in Known :
          /\ k \in DOMAIN prior
          /\ k \notin DOMAIN configuration[LastStaged]
          /\ k \notin DOMAIN environ
    /\ \E k \in Known : k \in DOMAIN environ

\* C6: a step leaves every environment variable outside KNOWN_CONFIG_KEYS
\* as it was, present or absent and with its value, writes no entry of the
\* configuration under such a key, and leaves the configurations alone.
C6_OnlyAllowListedKeys ==
    [][/\ \A k \in (DOMAIN environ \cup DOMAIN environ') \ Known :
             /\ k \in DOMAIN environ /\ k \in DOMAIN environ'
             /\ environ'[k] = environ[k]
       /\ configuration' = configuration]_allvars

\* staged from a configuration with an entry outside the allow-list, which
\* the environment does not hold
C6_Witness ==
    /\ Staged
    /\ HasValue(configuration[LastStaged], OtherKey)
    /\ OtherKey \notin DOMAIN environ
    /\ \E k \in Known : k \in DOMAIN environ

\* the two configurations differ at most in the values of secret keys
SecretsApart(c1, c2) ==
    /\ DOMAIN c1 = DOMAIN c2
    /\ \A k \in DOMAIN c1 :
          IF k \in KNOWN_SECRET_KEYS
          THEN (c1[k] = None) <=> (c2[k] = None)
          ELSE c1[k] = c2[k]

LoggedKeys(i) == {logged[i][n].key : n \in 1..Len(logged[i])}

IsPrefix(s, t) == Len(s) <= Len(t) /\ \A n \in 1..Len(s) : s[n] = t[n]

ClientCalled(i) == client[i] # NotCalled

\* C7: an execution stages the whole allow-list, then calls the client
\* once, then translates the client's raw result; a run_query that returns
\* returns the translation of that raw result and a null error.
C7_StageClientTranslate ==
    \A i \in Inst :
       /\ IsPrefix(events[i], <<"staged", "client", "translate">>)
       /\ ClientCalled(i) <=> Len(events[i]) >= 2
       /\ ClientCalled(i) => key[i] = Len(KNOWN_CONFIG_KEYS) + 1
       /\ returned[i].ok =>
             /\ pc[i] = "done"
             /\ events[i] = <<"staged", "client", "translate">>
             /\ client[i].ok
             /\ returned[i].value[1] = _transform_sparql_results(client[i].value).value
             /\ returned[i].value[2] = None
       /\ pc[i] = "done" => returned[i].ok

\* an execution with a configured key has returned
C7_Witness ==
    \E i \in Inst :
       /\ pc[i] = "done"
       /\ configuration[i] # EmptyDict
       /\ returned[i].value[2] = None

ClientRaised(i) == ClientCalled(i) /\ ~client[i].ok

\* C8: the step in which the client raises ends run_query with the
\* client's exception as it is, no (data, error) pair, the translator not
\* called and the environment as it was staged; an execution that has
\* raised does nothing more: no second client call, no result.
C8_ClientErrorPropagates ==
    [][\A i \in Inst :
          /\ (pc[i] = "client" /\ ~client'[i].ok /\ pc'[i] # "client") =>
                /\ pc'[i] = "raised"
                /\ returned'[i] = client'[i]
                /\ events'[i] = <<"staged", "client">>
                /\ environ' = environ
          /\ pc[i] = "raised" =>
                /\ pc'[i] = "raised"
                /\ returned'[i] = returned[i]
                /\ events'[i] = events[i]
                /\ client'[i] = client[i]]_allvars

\* the client of an execution with a staged key has raised
C8_Witness ==
    \E i \in Inst :
       /\ ClientRaised(i)
       /\ pc[i] = "raised"
       /\ \E k \in DOMAIN configuration[i] : k \in DOMAIN seen[i]

\* what a configuration stages: its allow-listed entries with a value
StagedView(cfg) == [k \in {x \in Known : HasValue(cfg, x)} |-> cfg[k]]

\* the allow-listed part of an environment
KnownPart(env) == [k \in DOMAIN env \cap Known |-> env[k]]

\* C9: the client call of an execution that no other execution wrote the
\* environment under reads exactly its own instance's configuration, and
\* the staging of such an execution does not raise; a client call that
\* reads what the other execution staged is reachable (C9_Witness).
C9_OwnConfigurationUnlessInterleaved ==
    \A i \in Inst :
       ~interfered[i] =>
          /\ ClientCalled(i) => KnownPart(seen[i]) = StagedView(configuration[i])
          /\ pc[i] = "raised" => ClientCalled(i)

\* the client call of one execution read the other instance's
\* configuration in place of its own
C9_Witness ==
    \E i, j \in Inst :
       /\ i # j
       /\ ClientCalled(i)
       /\ configuration[i] # EmptyDict
       /\ KnownPart(seen[i]) = StagedView(configuration[j])
       /\ KnownPart(seen[i]) # StagedView(configuration[i])
       /\ \A k \in DOMAIN configuration[i] : k \in DOMAIN seen[i]

\* the client call of one execution read a mix of keys of both instances
C9_MixedWitness ==
    \E i, j \in Inst :
       /\ i # j
       /\ ClientCalled(i)
       /\ \E k \in DOMAIN seen[i] : seen[i][k] = OwnValue[i]
       /\ \E k \in DOMAIN seen[i] : seen[i][k] = OwnValue[j]

====
